---- MODULE Spec2Model ----
(***************************************************************************)
(* Model of GlacierArchiveDelete.py: the __main__ loop over the vault-name *)
(* file and, per vault, remove_all_archives_and_the_vault (existence       *)
(* check, inventory job, polling, inventory fetch, deletion loop, report). *)
(* The storage tier (boto3 client and resource) is the environment: each   *)
(* call returns or raises, chosen nondeterministically.                    *)
(***************************************************************************)
EXTENDS Integers, Sequences, FiniteSets, TLC

(* ------------------------------ bounds -------------------------------- *)
\* longest vault-name file, in lines
MaxLines == 2
\* largest inventory, in archives
MaxArchives == 2
\* most describe_job polls of one drain that answer "not completed"
MaxPolls == 2

(* ------------------------- program constants -------------------------- *)
\* time.sleep(60 * 20) between two polls, in seconds
PollSleepSecs == 1200
\* progress line every 10,000 archives
ProgressEvery == 10000
\* time.sleep(1) every 100 archives
ThrottleEvery == 100
ThrottleSleepSecs == 1

(* ------------------------------ inputs -------------------------------- *)
NL == "\n"
SP == " "
\* the lines a vault-name file is made of: an empty line, a name, a padded name
LineSet == { <<NL>>, <<"a", NL>>, <<SP, "b", SP, NL>> }
ArchiveIds == {"a1", "a2", "a3"}
JobIds == {"j1", "j2"}
NoValue == "-"

SeqsUpTo(S, n) == UNION { [1..k -> S] : k \in 0..n }
Injective(s) == \A i, j \in DOMAIN s : s[i] = s[j] => i = j

\* what VaultsToBeDeleted.txt can be: absent, or a sequence of lines
VaultFiles ==
    { [exists |-> FALSE, lines |-> << >>] }
    \cup { [exists |-> TRUE, lines |-> ls] : ls \in SeqsUpTo(LineSet, MaxLines) }

\* what a completed inventory job can hold: a payload json.loads rejects, a
\* document without the ArchiveList key, or an inventory document whose
\* entries carry the (unique) ArchiveId of each archive of the vault
InventoryDocs ==
    { [kind |-> "inventory",
       ArchiveList |-> [i \in DOMAIN ids |-> [ArchiveId |-> ids[i]]]] :
        ids \in { s \in SeqsUpTo(ArchiveIds, MaxArchives) : Injective(s) } }
Payloads ==
    { [kind |-> k, ArchiveList |-> << >>] : k \in {"invalid_json", "no_archive_list"} }
    \cup InventoryDocs

(* ----------------------------- str.strip ------------------------------ *)
IsSpace(c) == c \in {SP, NL}

RECURSIVE LStrip(_)
LStrip(s) == IF s # <<>> /\ IsSpace(Head(s)) THEN LStrip(Tail(s)) ELSE s

RECURSIVE RStrip(_)
RStrip(s) ==
    IF s # <<>> /\ IsSpace(s[Len(s)]) THEN RStrip(SubSeq(s, 1, Len(s) - 1)) ELSE s

Strip(s) == RStrip(LStrip(s))

\* the comprehension filtering on the raw line: [line.strip() for line in file if line]
RECURSIVE NonBlankLines_RawFilter(_)
NonBlankLines_RawFilter(lines) ==
    IF lines = <<>> THEN <<>>
    ELSE IF Head(lines) # <<>>
         THEN <<Strip(Head(lines))>> \o NonBlankLines_RawFilter(Tail(lines))
         ELSE NonBlankLines_RawFilter(Tail(lines))

\* [line.strip() for line in file if line.strip()]
RECURSIVE NonBlankLines(_)
NonBlankLines(lines) ==
    IF lines = <<>> THEN <<>>
    ELSE IF Strip(Head(lines)) # <<>>
         THEN <<Strip(Head(lines))>> \o NonBlankLines(Tail(lines))
         ELSE NonBlankLines(Tail(lines))

(* ------------------------------- state -------------------------------- *)
VARIABLES
    file,           \* VaultsToBeDeleted.txt
    mpc,            \* position of __main__: start, loop, done, crashed
    vault_names,    \* __main__: the stripped non-blank lines
    vidx,           \* __main__: vaults of vault_names already handed to a drain
    main_log,       \* lines __main__ logged
    dpc,            \* position of remove_all_archives_and_the_vault
    vault_name,     \* the drain's parameter
    job_id,
    polls,          \* describe_job answers "not completed" of this drain
    archive_list,
    it,             \* entries the for loop has taken from archive_list
    archive_id,
    archive_idx,
    success_count,
    failure_count,
    calls,          \* storage-tier calls and sleeps of the current drain, in order
    log,            \* lines the current drain logged
    exc             \* the call whose exception left the program, or NoValue

vars == << file, mpc, vault_names, vidx, main_log, dpc, vault_name, job_id, polls,
           archive_list, it, archive_id, archive_idx, success_count, failure_count,
           calls, log, exc >>

mainVars == << file, mpc, vault_names, vidx, main_log >>
loopVars == << archive_list, it, archive_id, archive_idx, success_count, failure_count >>

Call(op, job, archive, secs, result) ==
    [op |-> op, vault |-> vault_name, job |-> job, archive |-> archive,
     secs |-> secs, result |-> result]

Line(level, msg, n) == [level |-> level, msg |-> msg, n |-> n]

Init ==
    /\ file \in VaultFiles
    /\ mpc = "start"
    /\ vault_names = <<>>
    /\ vidx = 0
    /\ main_log = <<>>
    /\ dpc = "idle"
    /\ vault_name = <<>>
    /\ job_id = NoValue
    /\ polls = 0
    /\ archive_list = <<>>
    /\ it = 0
    /\ archive_id = NoValue
    /\ archive_idx = 0
    /\ success_count = 0
    /\ failure_count = 0
    /\ calls = <<>>
    /\ log = <<>>
    /\ exc = NoValue

(* ------------------------------ __main__ ------------------------------ *)
\* with open('VaultsToBeDeleted.txt') ... : the file is read once; a missing file
\* is logged by the except clause and the program ends
ReadVaultFile ==
    /\ mpc = "start"
    /\ IF ~file.exists
       THEN /\ main_log' = Append(main_log, Line("ERROR", "file not found", 0))
            /\ mpc' = "done"
            /\ UNCHANGED vault_names
       ELSE /\ vault_names' = NonBlankLines(file.lines)
            /\ main_log' = IF NonBlankLines(file.lines) = <<>>
                           THEN Append(main_log, Line("ERROR", "No vaults to process", 0))
                           ELSE main_log
            /\ mpc' = "loop"
    /\ UNCHANGED << file, vidx, dpc, vault_name, job_id, polls, loopVars, calls, log, exc >>

\* the list walked from its end
NextVaultName_Reversed == vault_names[Len(vault_names) - vidx]

\* line 191: the vault the for statement yields next
NextVaultName == vault_names[vidx + 1]

\* for vault in vault_names: the next vault is handed to the drain, which logs its
\* banner and start line (lines 19-21)
StartVault ==
    /\ mpc = "loop"
    /\ dpc = "idle"
    /\ vidx < Len(vault_names)
    /\ vidx' = vidx + 1
    /\ main_log' = Append(main_log, Line("INFO", "Processing vault", vidx + 1))
    /\ vault_name' = NextVaultName
    /\ dpc' = "check_exists"
    /\ job_id' = NoValue
    /\ polls' = 0
    /\ archive_list' = <<>>
    /\ it' = 0
    /\ archive_id' = NoValue
    /\ archive_idx' = 0
    /\ success_count' = 0
    /\ failure_count' = 0
    /\ calls' = <<>>
    /\ log' = << Line("INFO", "banner", 0), Line("INFO", "Starting process", 0) >>
    /\ UNCHANGED << file, mpc, vault_names, exc >>

\* the for loop is exhausted: the program falls off its end
EndOfList ==
    /\ mpc = "loop"
    /\ dpc = "idle"
    /\ vidx = Len(vault_names)
    /\ mpc' = "done"
    /\ UNCHANGED << file, vault_names, vidx, main_log, dpc, vault_name, job_id, polls,
                    loopVars, calls, log, exc >>

\* a step of the drain that neither returns nor raises: control moves on
Continue(next) ==
    /\ dpc' = next
    /\ UNCHANGED << file, mpc, vault_names, vidx, main_log, exc >>

\* an exception nothing catches: __main__ catches FileNotFoundError only, so the
\* exception of a storage-tier call ends the program where it was raised
Propagate(call) ==
    /\ mpc' = "crashed"
    /\ exc' = call
    /\ UNCHANGED << dpc, file, vault_names, vidx, main_log >>

(* ------------------------- check_vault_exists ------------------------- *)
\* what describe_vault can do: return, raise ClientError with the code
\* ResourceNotFoundException, raise ClientError with another code, or raise an
\* exception that is no ClientError (botocore's connection and credential errors)
DescribeVaultOutcomes ==
    {"ok", "ResourceNotFoundException", "OtherClientError", "NotAClientError"}

\* the value check_vault_exists returns, "raise" when the exception leaves it
check_vault_exists(outcome) ==
    CASE outcome = "ok" -> "True"
      [] outcome = "ResourceNotFoundException" -> "False"
      [] outcome = "OtherClientError" -> "False"
      [] OTHER -> "raise"

\* the line check_vault_exists logs itself (line 130)
CheckLog(outcome) ==
    IF outcome = "OtherClientError"
    THEN << Line("ERROR", "Error checking vault existence", 0) >>
    ELSE << >>

\* lines 25-26 with a wrong early return: the error is logged and the drain goes on
OnVaultAbsent_NoReturn(outcome) ==
    /\ log' = log \o CheckLog(outcome)
              \o << Line("ERROR", "Vault does not exist. Skipping.", 0) >>
    /\ Continue("initiate")

\* lines 25-26: the check was false; log the error and return to __main__
OnVaultAbsent(outcome) ==
    /\ log' = log \o CheckLog(outcome)
              \o << Line("ERROR", "Vault does not exist. Skipping.", 0) >>
    /\ Continue("idle")

\* lines 24-26: the existence check and the early return
CheckVaultExists ==
    /\ mpc = "loop"
    /\ dpc = "check_exists"
    /\ \E outcome \in DescribeVaultOutcomes :
        /\ calls' = Append(calls, Call("describe_vault", NoValue, NoValue, 0, outcome))
        /\ CASE check_vault_exists(outcome) = "True" ->
                  /\ Continue("initiate")
                  /\ log' = log
             [] check_vault_exists(outcome) = "False" ->
                  OnVaultAbsent(outcome)
             [] OTHER ->
                  /\ Propagate("describe_vault")
                  /\ log' = log
    /\ UNCHANGED << vault_name, job_id, polls, loopVars >>

(* ----------------------- inventory job coordinator -------------------- *)
\* lines 29-33: initiate_job returns a job id or raises
InitiateJob ==
    /\ mpc = "loop"
    /\ dpc = "initiate"
    /\ \/ \E j \in JobIds :
            /\ calls' = Append(calls, Call("initiate_job", j, NoValue, 0, "ok"))
            /\ job_id' = j
            /\ Continue("poll")
       \/ /\ calls' = Append(calls, Call("initiate_job", NoValue, NoValue, 0, "raise"))
          /\ job_id' = job_id
          /\ Propagate("initiate_job")
    /\ UNCHANGED << vault_name, polls, loopVars, log >>

\* the sleep placed before the test of Completed: a completed job is slept on too
OnJobCompleted_SleepsFirst == Continue("poll_sleep")

\* lines 42-43: the job is completed; break out of the polling loop
OnJobCompleted == Continue("fetch")

\* a deadline on the polling loop: after one sleep the drain gives up and returns
OnJobPending_GivesUp ==
    /\ polls' = polls + 1
    /\ IF polls >= 1 THEN Continue("idle") ELSE Continue("poll_sleep")

\* a job that is not completed is submitted again
OnJobPending_Resubmits ==
    /\ polls' = polls + 1
    /\ Continue("initiate")

\* lines 42-44: the job is not completed; go to the sleep, whatever the polls so far
OnJobPending ==
    /\ polls' = polls + 1
    /\ Continue("poll_sleep")

\* lines 37-43: one poll; the job is completed, is not yet, or the call raises.
\* MaxPolls bounds the answers "not completed" the storage tier gives, not the
\* polls the program is willing to make.
DescribeJob ==
    /\ mpc = "loop"
    /\ dpc = "poll"
    /\ log' = Append(log, Line("INFO", "Checking job status", 0))
    /\ \/ /\ calls' = Append(calls, Call("describe_job", job_id, NoValue, 0, "completed"))
          /\ polls' = polls
          /\ OnJobCompleted
       \/ /\ polls < MaxPolls
          /\ calls' = Append(calls, Call("describe_job", job_id, NoValue, 0, "pending"))
          /\ OnJobPending
       \/ /\ calls' = Append(calls, Call("describe_job", job_id, NoValue, 0, "raise"))
          /\ polls' = polls
          /\ Propagate("describe_job")
    /\ UNCHANGED << vault_name, job_id, loopVars >>

\* line 44: time.sleep(60 * 20), then the loop polls again
PollSleep ==
    /\ mpc = "loop"
    /\ dpc = "poll_sleep"
    /\ calls' = Append(calls, Call("sleep", NoValue, NoValue, PollSleepSecs, "ok"))
    /\ Continue("poll")
    /\ UNCHANGED << vault_name, job_id, polls, loopVars, log >>

\* lines 47-62: fetch the job output, decode it, take ArchiveList, log the
\* count and set the three counters to 0
GetJobOutput ==
    /\ mpc = "loop"
    /\ dpc = "fetch"
    /\ \/ /\ calls' = Append(calls, Call("get_job_output", job_id, NoValue, 0, "raise"))
          /\ Propagate("get_job_output")
          /\ UNCHANGED << loopVars, log >>
       \/ \E payload \in Payloads :
            /\ calls' = Append(calls, Call("get_job_output", job_id, NoValue, 0, "ok"))
            /\ CASE payload.kind = "invalid_json" ->
                      /\ Propagate("json.loads")
                      /\ UNCHANGED << loopVars, log >>
                 [] payload.kind = "no_archive_list" ->
                      /\ Propagate("ArchiveList")
                      /\ UNCHANGED << loopVars, log >>
                 [] OTHER ->
                      /\ archive_list' = payload.ArchiveList
                      /\ log' = log \o << Line("INFO", "Number of Archives",
                                               Len(payload.ArchiveList)),
                                          Line("INFO", "Processing deletions", 0) >>
                      /\ archive_idx' = 0
                      /\ success_count' = 0
                      /\ failure_count' = 0
                      /\ UNCHANGED << it, archive_id >>
                      /\ Continue("for")
    /\ UNCHANGED << vault_name, job_id, polls >>

(* ------------------------ archive deletion engine --------------------- *)
\* what archive_resource.delete() can do: return, or raise an Exception
DeleteOutcomes == {"ok", "raise"}

\* the for statement leaving the loop one entry early
HasNext_StopsEarly == it < Len(archive_list) - 1

\* line 63: the list iterator has an entry left
HasNext == it < Len(archive_list)

\* the entries taken from the end of the list
NextArchiveId_Reversed == archive_list[Len(archive_list) - it].ArchiveId

\* lines 63-64: the entry the iterator yields, and its ArchiveId
NextArchiveId == archive_list[it + 1].ArchiveId

\* lines 63-65: the for statement takes the next entry of archive_list, or ends
ForNext ==
    /\ mpc = "loop"
    /\ dpc = "for"
    /\ IF HasNext
       THEN /\ it' = it + 1
            /\ archive_id' = NextArchiveId
            /\ Continue("delete")
       ELSE /\ UNCHANGED << it, archive_id >>
            /\ Continue("report")
    /\ UNCHANGED << vault_name, job_id, polls, archive_list, archive_idx,
                    success_count, failure_count, calls, log >>

\* the except clause ending the loop at the first failure
OnDeleteRaise_Breaks ==
    /\ failure_count' = failure_count + 1
    /\ log' = Append(log, Line("ERROR", "Delete FAILED", archive_idx))
    /\ UNCHANGED success_count
    /\ Continue("report")

\* no except clause: the exception of a delete leaves the drain
OnDeleteRaise_Uncaught ==
    /\ UNCHANGED << failure_count, success_count, log >>
    /\ Propagate("delete_archive")

\* the except clause counting the failure in the wrong counter
OnDeleteRaise_CountsSuccess ==
    /\ success_count' = success_count + 1
    /\ log' = Append(log, Line("ERROR", "Delete FAILED", archive_idx))
    /\ UNCHANGED failure_count
    /\ Continue("inc")

\* lines 70-72: except Exception: log the failure with its index, count it
OnDeleteRaise ==
    /\ failure_count' = failure_count + 1
    /\ log' = Append(log, Line("ERROR", "Delete FAILED", archive_idx))
    /\ UNCHANGED success_count
    /\ Continue("inc")

\* the delete addressed to the first vault of the list, not to the drain's own
DeleteCall_FirstVault(outcome) ==
    [op |-> "delete_archive", vault |-> vault_names[1], job |-> NoValue,
     archive |-> archive_id, secs |-> 0, result |-> outcome]

\* lines 65-67: glacier_resource.Archive("-", vault_name, archive_id).delete()
DeleteCall(outcome) == Call("delete_archive", NoValue, archive_id, 0, outcome)

\* lines 66-72: the delete and its try/except; the logger is set to INFO, so
\* the debug line of a success is not written
DeleteArchive ==
    /\ mpc = "loop"
    /\ dpc = "delete"
    /\ \E outcome \in DeleteOutcomes :
        /\ calls' = Append(calls, DeleteCall(outcome))
        /\ IF outcome = "ok"
           THEN /\ success_count' = success_count + 1
                /\ UNCHANGED << failure_count, log >>
                /\ Continue("inc")
           ELSE OnDeleteRaise
    /\ UNCHANGED << vault_name, job_id, polls, archive_list, it, archive_id, archive_idx >>

\* line 73 moved into the try block: a failed delete is not counted as processed
IncIdx_OnSuccessOnly ==
    /\ mpc = "loop"
    /\ dpc = "inc"
    /\ archive_idx' = IF calls[Len(calls)].result = "ok"
                      THEN archive_idx + 1 ELSE archive_idx
    /\ Continue("progress")
    /\ UNCHANGED << vault_name, job_id, polls, archive_list, it, archive_id,
                    success_count, failure_count, calls, log >>

\* line 73
IncIdx ==
    /\ mpc = "loop"
    /\ dpc = "inc"
    /\ archive_idx' = archive_idx + 1
    /\ Continue("progress")
    /\ UNCHANGED << vault_name, job_id, polls, archive_list, it, archive_id,
                    success_count, failure_count, calls, log >>

\* the progress line on the cadence of the throttle
ProgressDue_ThrottleCadence == archive_idx % ThrottleEvery = 0

\* line 76
ProgressDue == archive_idx % ProgressEvery = 0

\* lines 76-77
Progress ==
    /\ mpc = "loop"
    /\ dpc = "progress"
    /\ log' = IF ProgressDue
              THEN Append(log, Line("INFO", "Progress", archive_idx))
              ELSE log
    /\ Continue("throttle")
    /\ UNCHANGED << vault_name, job_id, polls, loopVars, calls >>

\* the sleep outside the if: taken after every archive
ThrottleDue_EveryArchive == TRUE

\* line 80
ThrottleDue == archive_idx % ThrottleEvery = 0

\* lines 80-81
Throttle ==
    /\ mpc = "loop"
    /\ dpc = "throttle"
    /\ calls' = IF ThrottleDue
                THEN Append(calls, Call("sleep", NoValue, NoValue, ThrottleSleepSecs, "ok"))
                ELSE calls
    /\ Continue("for")
    /\ UNCHANGED << vault_name, job_id, polls, loopVars, log >>

(* ------------------------------ reporter ------------------------------ *)
\* longest run of one drain on the clock, in whole seconds
MaxElapsed == 2

\* line 105 guarding on the count instead of the time
ArchivesPerSecond_GuardsCount(archive_count, seconds) ==
    IF archive_count > 0
    THEN [num |-> archive_count, den |-> seconds]
    ELSE [num |-> 0, den |-> 1]

\* line 105: archive_count / seconds as the fraction num/den, 0.0 when no time passed
ArchivesPerSecond(archive_count, seconds) ==
    IF seconds > 0
    THEN [num |-> archive_count, den |-> seconds]
    ELSE [num |-> 0, den |-> 1]

\* lines 84-92 and log_elapsed_time: the tallies, the elapsed-time line, and
\* the return to __main__
Report ==
    /\ mpc = "loop"
    /\ dpc = "report"
    /\ \E seconds \in 0..MaxElapsed :
        log' = log \o << Line("INFO", "Total Archives", archive_idx),
                         Line("INFO", "Total SUCCESS", success_count),
                         Line("INFO", "Total FAIL", failure_count),
                         [level |-> "INFO", msg |-> "Elapsed time", n |-> archive_idx,
                          elapsed |-> seconds,
                          rate |-> ArchivesPerSecond(archive_idx, seconds)] >>
    /\ Continue("idle")
    /\ UNCHANGED << vault_name, job_id, polls, loopVars, calls >>

(* --------------------------- specification ---------------------------- *)
Next ==
    \/ ReadVaultFile
    \/ StartVault
    \/ EndOfList
    \/ CheckVaultExists
    \/ InitiateJob
    \/ DescribeJob
    \/ PollSleep
    \/ GetJobOutput
    \/ ForNext
    \/ DeleteArchive
    \/ IncIdx
    \/ Progress
    \/ Throttle
    \/ Report

Spec == Init /\ [][Next]_vars

\* the program is sequential and, as long as every call returns, takes its next step
FairSpec == Spec /\ WF_vars(Next)

(* ------------------- the deletion engine on long lists ----------------- *)
\* The deletion engine and the reporter alone, over inventories long enough for
\* the throttle of line 80 and the progress line of line 76 to come due. The
\* storage tier answers the deletes by a fixed script. A run over a short list
\* is entered where GetJobOutput leaves the drain of an existing vault; a run
\* over a list of ProgressEvery entries or more is entered at the top of the
\* loop EngineTail archives before the first progress line, in the state
\* EngineState gives, which is the state the run from the top of the list is in
\* there (EngineStateIsReached, checked along every run of EngineSpec).

\* one delete in FailEvery raises
FailEvery == 3
\* archives left before the first progress line where a long run is entered
EngineTail == 1

\* what the storage tier answers to the delete of the i-th entry
DeleteScript(i) == IF i % FailEvery = 0 THEN "raise" ELSE "ok"

LongInventory(n) == [i \in 1..n |-> [ArchiveId |-> ToString(i)]]

\* the calls of a drain up to the k-th archive: the four calls before the loop,
\* then the deletes in order with a sleep after every ThrottleEvery-th
EngineCalls(k) ==
    << Call("describe_vault", NoValue, NoValue, 0, "ok"),
       Call("initiate_job", "j1", NoValue, 0, "ok"),
       Call("describe_job", "j1", NoValue, 0, "completed"),
       Call("get_job_output", "j1", NoValue, 0, "ok") >>
    \o [p \in 1..(k + k \div ThrottleEvery) |->
          LET q == (p - 1) \div (ThrottleEvery + 1)
              r == (p - 1) % (ThrottleEvery + 1)
          IN  IF r = ThrottleEvery
              THEN Call("sleep", NoValue, NoValue, ThrottleSleepSecs, "ok")
              ELSE Call("delete_archive", NoValue, ToString(q * ThrottleEvery + r + 1), 0,
                        DeleteScript(q * ThrottleEvery + r + 1))]

\* the lines of a drain of n archives up to the k-th, k < ProgressEvery: the
\* lines before the loop, then one error line for every delete that raised
EngineLog(n, k) ==
    << Line("INFO", "banner", 0), Line("INFO", "Starting process", 0),
       Line("INFO", "Checking job status", 0),
       Line("INFO", "Number of Archives", n),
       Line("INFO", "Processing deletions", 0) >>
    \o [j \in 1..(k \div FailEvery) |-> Line("ERROR", "Delete FAILED", j * FailEvery - 1)]

\* the state at the top of the loop when k of n archives have been processed
EngineState(n, k) ==
    /\ file = [exists |-> TRUE, lines |-> << <<"a", NL>> >>]
    /\ mpc = "loop"
    /\ vault_names = << <<"a">> >>
    /\ vidx = 1
    /\ main_log = << Line("INFO", "Processing vault", 1) >>
    /\ dpc = "for"
    /\ vault_name = <<"a">>
    /\ job_id = "j1"
    /\ polls = 0
    /\ archive_list = LongInventory(n)
    /\ it = k
    /\ archive_id = (IF k = 0 THEN NoValue ELSE ToString(k))
    /\ archive_idx = k
    /\ success_count = k - k \div FailEvery
    /\ failure_count = k \div FailEvery
    /\ calls = EngineCalls(k)
    /\ log = EngineLog(n, k)
    /\ exc = NoValue

\* the runs of EngineSpec: the length of the list and the archives already processed
EngineRuns ==
    { <<n, 0>> : n \in {ThrottleEvery - 1, ThrottleEvery, 2 * ThrottleEvery + 1} }
    \cup { <<n, ProgressEvery - EngineTail>> : n \in {ProgressEvery, ProgressEvery + 1} }

EngineInit == \E run \in EngineRuns : EngineState(run[1], run[2])

EngineNext ==
    \/ ForNext
    \/ DeleteArchive /\ calls'[Len(calls')].result = DeleteScript(it)
    \/ IncIdx
    \/ Progress
    \/ Throttle
    \/ Report

EngineSpec == EngineInit /\ [][EngineNext]_vars

\* at the top of the loop, before the first progress line, a run is in the
\* state EngineState gives for the archives it has processed
EngineStateIsReached ==
    (dpc = "for" /\ archive_idx < ProgressEvery)
      => EngineState(Len(archive_list), archive_idx)

(* ------------------------- observation helpers ------------------------ *)
\* positions of the deletion phase, from the initialisation of the counters on
LoopPcs == {"for", "delete", "inc", "progress", "throttle"}

HasLine(msg) == \E i \in DOMAIN log : log[i].msg = msg

\* the drain returned through its report (log_elapsed_time was the last thing it did)
Reported == dpc = "idle" /\ log # << >> /\ log[Len(log)].msg = "Elapsed time"

\* the drain returned at the existence check
Skipped == dpc = "idle" /\ log # << >>
           /\ log[Len(log)].msg = "Vault does not exist. Skipping."

IsDelete(c) == c.op = "delete_archive"
DeleteCalls == SelectSeq(calls, IsDelete)
DeletedIds == [i \in DOMAIN DeleteCalls |-> DeleteCalls[i].archive]
InventoryIds == [i \in DOMAIN archive_list |-> archive_list[i].ArchiveId]
CountResult(r) == Cardinality({ i \in DOMAIN DeleteCalls : DeleteCalls[i].result = r })
CallsOf(op) == Cardinality({ i \in DOMAIN calls : calls[i].op = op })

(* -------------------------------- C1 ---------------------------------- *)
\* C1 as stated: success_count + failure_count = archive_idx in every state from
\* the initialisation of the counters on, between the statements of an
\* iteration too.
C1_AtAllTimes ==
    dpc \in LoopPcs \cup {"report"} => success_count + failure_count = archive_idx

\* C1 (amended): success_count + failure_count = archive_idx at every iteration
\* boundary and after the loop, and at every statement but one inside an
\* iteration: between the increment of a counter (line 69 or 72) and line 73 the
\* sum is archive_idx + 1.
C1_CounterSum ==
    /\ dpc \in {"for", "delete", "progress", "throttle", "report"}
         => success_count + failure_count = archive_idx
    /\ dpc = "inc" => success_count + failure_count = archive_idx + 1

C1_Witness ==
    dpc = "for" /\ archive_idx = 2 /\ success_count = 1 /\ failure_count = 1

(* -------------------------------- C2 ---------------------------------- *)
\* C2: a delete that raises is counted as a failure and the loop goes on to line
\* 73 (nothing propagates); and once a delete has failed, the drain still reaches
\* its report with one delete attempted for every entry of the inventory.
C2_FailureIsAbsorbed ==
    /\ [][ (dpc = "delete" /\ calls' # calls /\ calls'[Len(calls')].result = "raise")
             => /\ failure_count' = failure_count + 1
                /\ success_count' = success_count
                /\ dpc' = "inc"
                /\ mpc' = "loop"
                /\ exc' = NoValue ]_vars
    /\ (dpc \in LoopPcs /\ failure_count > 0)
         ~> (Reported /\ Len(DeleteCalls) = Len(archive_list))

C2_Witness ==
    /\ Reported
    /\ \E i, j \in DOMAIN DeleteCalls :
         i < j /\ DeleteCalls[i].result = "raise" /\ DeleteCalls[j].result = "ok"

(* -------------------------------- C3 ---------------------------------- *)
\* C3: when the deletion loop has finished, success_count + failure_count = N and
\* archive_idx = N, N the length of the archive list (0 included); and the count
\* the report lines carry is N.
C3_TotalsAfterLoop ==
    /\ dpc = "report"
         => /\ success_count + failure_count = Len(archive_list)
            /\ archive_idx = Len(archive_list)
    /\ Reported
         => /\ log[Len(log)].n = Len(archive_list)
            /\ log[Len(log) - 3] = Line("INFO", "Total Archives", Len(archive_list))

C3_Witness ==
    Reported /\ Len(archive_list) = 2 /\ success_count = 1 /\ failure_count = 1

C3_WitnessEmpty == Reported /\ Len(archive_list) = 0

(* -------------------------------- C4 ---------------------------------- *)
\* C4: success_count is the number of delete calls that returned and
\* failure_count the number that raised; so when every delete of a finished loop
\* succeeded, failure_count = 0 and success_count = N.
C4_CountsMatchOutcomes ==
    /\ dpc \in LoopPcs \cup {"report"}
         => /\ success_count = CountResult("ok")
            /\ failure_count = CountResult("raise")
    /\ (dpc = "report" /\ CountResult("raise") = 0)
         => failure_count = 0 /\ success_count = Len(archive_list)

C4_Witness ==
    dpc = "report" /\ Len(archive_list) = 2 /\ CountResult("raise") = 0
    /\ success_count = 2

(* -------------------------------- C5 ---------------------------------- *)
\* C5: when check_vault_exists returned false the drain has returned, having
\* logged the error, its only storage-tier call is the describe_vault of the
\* check (no initiate_job, describe_job, get_job_output or delete), and it
\* emitted no report.
C5_AbsentVaultIsNoOp ==
    HasLine("Vault does not exist. Skipping.")
      => /\ Skipped
         /\ Len(calls) = 1
         /\ calls[1].op = "describe_vault"
         /\ calls[1].result \in {"ResourceNotFoundException", "OtherClientError"}
         /\ ~HasLine("Elapsed time")
         /\ ~HasLine("Total Archives")
         /\ mpc \in {"loop", "done"}

C5_Witness ==
    Skipped /\ mpc = "done" /\ calls[1].result = "ResourceNotFoundException"

(* -------------------------------- C6 ---------------------------------- *)
\* C6: the delete calls of a drain are, in order, the ArchiveIds of the
\* inventory: at every moment the ids deleted so far are the first entries of
\* the list, one call per entry the loop has passed whether it failed or not,
\* and when the loop has finished they are the whole list, N calls for N entries.
C6_DeletesInInventoryOrder ==
    /\ Len(DeleteCalls) = (IF dpc = "delete" THEN it - 1 ELSE it)
    /\ Len(DeleteCalls) <= Len(InventoryIds)
    /\ DeletedIds = SubSeq(InventoryIds, 1, Len(DeleteCalls))
    /\ (dpc = "report" \/ Reported) => DeletedIds = InventoryIds

C6_Witness ==
    /\ Reported
    /\ InventoryIds = << "a3", "a1" >>
    /\ DeleteCalls[1].result = "raise"
    /\ DeletedIds = << "a3", "a1" >>

(* -------------------------------- C7 ---------------------------------- *)
PassedCheck == calls # << >> /\ calls[1].op = "describe_vault" /\ calls[1].result = "ok"

IsStorageCall(c) == c.op # "sleep"
StorageOps == [i \in DOMAIN SelectSeq(calls, IsStorageCall) |->
                 SelectSeq(calls, IsStorageCall)[i].op]

VaultScopedFailures ==
    {"initiate_job", "describe_job", "get_job_output", "json.loads", "ArchiveList"}

\* C8: a failure of job submission, polling, fetch or decoding aborts only the
\* drain of its vault: the program never ends on such a failure while vaults of
\* the list are still to be processed.
C8_RemainingVaultsProcessed ==
    ~(mpc = "crashed" /\ exc \in VaultScopedFailures /\ vidx < Len(vault_names))

(* -------------------------------- C9 ---------------------------------- *)
\* C9: no error of the describe_vault call escapes check_vault_exists: whatever
\* the call raises, the check returns false, that vault is skipped and the
\* program goes on.
C9_NoDescribeErrorEscapes ==
    /\ exc # "describe_vault"
    /\ (calls # << >> /\ calls[1].result \in DescribeVaultOutcomes \ {"ok"}
        /\ dpc # "check_exists") => Skipped

(* -------------------------------- C10 --------------------------------- *)
\* C10: after the deletion loop has run on an existing vault and every archive
\* delete succeeded, a vault-delete request for that vault has been issued by
\* the time the drain returns.
C10_VaultDeleted ==
    (Reported /\ failure_count = 0)
      => \E i \in DOMAIN calls : calls[i].op = "delete_vault" /\ calls[i].vault = vault_name

(* -------------------------------- C11 --------------------------------- *)
IsThrottleSleep(c) == c.op = "sleep" /\ c.secs = ThrottleSleepSecs
ThrottleSleeps == Cardinality({ i \in DOMAIN calls : IsThrottleSleep(calls[i]) })
DeletesBefore(i) == Cardinality({ j \in 1..(i - 1) : IsDelete(calls[j]) })

\* C11: the sleep of line 81 has been taken floor(n/100) times when n archives
\* have been processed, failed deletes counted like the others: each sleep
\* comes right after the delete of an archive whose position is a multiple of
\* 100; it comes after the last archive too when the list has a multiple of 100
\* entries; and a finished loop over N archives has slept floor(N/100) times,
\* never for N < 100.
C11_ThrottleCount ==
    /\ dpc \in {"for", "delete", "inc", "report"}
         => ThrottleSleeps = archive_idx \div ThrottleEvery
    /\ dpc \in {"progress", "throttle"}
         => ThrottleSleeps = (archive_idx - 1) \div ThrottleEvery
    /\ \A i \in DOMAIN calls :
         IsThrottleSleep(calls[i])
           => /\ i > 1
              /\ IsDelete(calls[i - 1])
              /\ DeletesBefore(i) > 0
              /\ DeletesBefore(i) % ThrottleEvery = 0
    /\ (dpc = "report" \/ Reported)
         => /\ ThrottleSleeps = Len(archive_list) \div ThrottleEvery
            /\ Len(archive_list) < ThrottleEvery => ThrottleSleeps = 0
            /\ (Len(archive_list) > 0 /\ Len(archive_list) % ThrottleEvery = 0)
                 => IsThrottleSleep(calls[Len(calls)])

C11_Witness ==
    /\ Reported
    /\ Len(archive_list) = 2 * ThrottleEvery + 1
    /\ ThrottleSleeps = 2
    /\ failure_count > 0
    /\ success_count > 0

C11_WitnessLast ==
    Reported /\ Len(archive_list) = ThrottleEvery /\ IsThrottleSleep(calls[Len(calls)])

(* -------------------------------- C12 --------------------------------- *)
ProgressLines == Cardinality({ i \in DOMAIN log : log[i].msg = "Progress" })

\* C12: a progress line is written once per 10,000 processed archives, when
\* archive_idx is a multiple of 10,000 after its increment: floor(n/10000) lines
\* when n archives have been processed, each carrying a multiple of 10,000, and
\* floor(N/10000) lines for a finished loop over N archives (1 for N = 10,000
\* and for N = 10,001, none for N < 10,000).
C12_ProgressCount ==
    /\ dpc \in {"for", "delete", "inc", "throttle", "report"}
         => ProgressLines = archive_idx \div ProgressEvery
    /\ dpc = "progress"
         => ProgressLines = (archive_idx - 1) \div ProgressEvery
    /\ \A i \in DOMAIN log :
         log[i].msg = "Progress" => (log[i].n > 0 /\ log[i].n % ProgressEvery = 0)
    /\ (dpc = "report" \/ Reported)
         => /\ ProgressLines = Len(archive_list) \div ProgressEvery
            /\ Len(archive_list) \in {ProgressEvery, ProgressEvery + 1}
                 => ProgressLines = 1
            /\ Len(archive_list) < ProgressEvery => ProgressLines = 0

C12_Witness ==
    /\ dpc = "throttle"
    /\ archive_idx = ProgressEvery
    /\ Len(archive_list) = ProgressEvery + 1
    /\ ProgressLines = 1
    /\ log[Len(log)] = Line("INFO", "Progress", ProgressEvery)

C12_WitnessOneMore ==
    Reported /\ Len(archive_list) = ProgressEvery + 1 /\ ProgressLines = 1

C12_WitnessExact ==
    Reported /\ Len(archive_list) = ProgressEvery /\ ProgressLines = 1

(* -------------------------------- C13 --------------------------------- *)
\* C13: the rate log_elapsed_time reports is 0.0 when the elapsed time is zero
\* seconds, whatever the archive count, and no division by zero is performed;
\* when the elapsed time is positive the rate is archive_count divided by the
\* elapsed seconds.
C13_Throughput ==
    Reported
      => LET line == log[Len(log)]
         IN  /\ line.rate.den # 0
             /\ line.elapsed = 0 => (line.rate.num = 0 /\ line.rate.den = 1)
             /\ line.elapsed > 0 => line.rate.num * line.elapsed = line.n * line.rate.den

C13_Witness ==
    Reported /\ log[Len(log)].elapsed = 0 /\ log[Len(log)].n = 2
    /\ log[Len(log)].rate.num = 0

C13_WitnessPositive ==
    Reported /\ log[Len(log)].elapsed = 2 /\ log[Len(log)].n = 1
    /\ log[Len(log)].rate = [num |-> 1, den |-> 2]

(* -------------------------------- C14 --------------------------------- *)
IsBlank(line) == \A i \in DOMAIN line : line[i] \in {SP, NL}
NonBlankCount == Cardinality({ i \in DOMAIN file.lines : ~IsBlank(file.lines[i]) })
NoDrain == vidx = 0 /\ dpc = "idle" /\ calls = << >> /\ log = << >> /\ exc = NoValue

\* C14: with the vault-name file missing, the condition is logged, no vault is
\* processed (no storage-tier call) and the program ends; with a file that holds
\* no non-blank line, the error is logged, no vault is processed and the
\* program ends normally, no exception raised; and a blank line never becomes a
\* drain: the vaults handed to the drain are as many as the non-blank lines at
\* most, each a non-empty name without surrounding white space.
C14_MissingOrEmptyList ==
    /\ (~file.exists /\ mpc # "start")
         => /\ mpc = "done"
            /\ main_log = << Line("ERROR", "file not found", 0) >>
            /\ NoDrain
    /\ (file.exists /\ NonBlankCount = 0 /\ mpc # "start")
         => /\ mpc \in {"loop", "done"}
            /\ main_log = << Line("ERROR", "No vaults to process", 0) >>
            /\ vault_names = << >>
            /\ NoDrain
    /\ (file.exists /\ mpc # "start")
         => /\ Len(vault_names) = NonBlankCount
            /\ vidx <= NonBlankCount
            /\ \A i \in DOMAIN vault_names :
                 /\ vault_names[i] # << >>
                 /\ ~IsSpace(vault_names[i][1])
                 /\ ~IsSpace(vault_names[i][Len(vault_names[i])])
            /\ vidx > 0 => vault_name = vault_names[vidx]
            /\ NonBlankCount > 0 => main_log = [i \in 1..vidx |->
                                                  Line("INFO", "Processing vault", i)]

C14_Witness ==
    /\ mpc = "done"
    /\ file.exists
    /\ file.lines = << <<NL>>, <<NL>> >>
    /\ main_log = << Line("ERROR", "No vaults to process", 0) >>

C14_WitnessMissing == mpc = "done" /\ ~file.exists /\ main_log # << >>

C14_WitnessBlankSkipped ==
    mpc = "done" /\ file.lines = << <<NL>>, <<SP, "b", SP, NL>> >> /\ vidx = 1
    /\ vault_name = << "b" >>

(* -------------------------------- C15 --------------------------------- *)
IsPollSleep(c) == c.op = "sleep" /\ c.secs = PollSleepSecs
IsPoll(c, r) == c.op = "describe_job" /\ c.result = r

\* C15: in the calls of one drain, get_job_output comes right after a
\* describe_job of the same job that answered completed; a describe_job that
\* answered not completed is followed by one sleep of 20 minutes and then by
\* another describe_job; the poll that answered completed is followed by no
\* sleep; a sleep of 20 minutes only ever follows a poll that answered not
\* completed; and every archive delete comes after get_job_output has returned.
C15_PollingOrder ==
    \A i \in DOMAIN calls :
      /\ calls[i].op = "get_job_output"
           => /\ i > 1
              /\ IsPoll(calls[i - 1], "completed")
              /\ calls[i - 1].job = calls[i].job
      /\ IsPoll(calls[i], "pending")
           => /\ i = Len(calls) => dpc = "poll_sleep"
              /\ i < Len(calls) => IsPollSleep(calls[i + 1])
              /\ i + 1 = Len(calls) => dpc = "poll"
              /\ i + 1 < Len(calls) => calls[i + 2].op = "describe_job"
      /\ IsPoll(calls[i], "completed")
           => /\ i = Len(calls) => dpc = "fetch"
              /\ i < Len(calls) => calls[i + 1].op = "get_job_output"
      /\ IsPollSleep(calls[i])
           => i > 1 /\ IsPoll(calls[i - 1], "pending")
      /\ IsDelete(calls[i])
           => \E j \in 1..(i - 1) :
                calls[j].op = "get_job_output" /\ calls[j].result = "ok"

C15_Witness ==
    /\ polls = 2
    /\ Cardinality({ i \in DOMAIN calls : IsPollSleep(calls[i]) }) = 2
    /\ Cardinality({ i \in DOMAIN calls : calls[i].op = "describe_job" }) = 3
    /\ Len(DeleteCalls) > 0

(* -------------------------------- C16 --------------------------------- *)
PollPcs == {"poll", "poll_sleep"}
CompletedPolls == Cardinality({ i \in DOMAIN calls : IsPoll(calls[i], "completed") })
InDrain == dpc \in {"initiate", "fetch", "report"} \cup PollPcs \cup LoopPcs

\* C16: the polling loop has no deadline. The drain leaves it only on an answer
\* "completed" (or by the exception of a poll); an answer "not completed" sends
\* it to the sleep and to the next poll however many polls came before, and both
\* steps can always be taken; while no poll has answered "completed" there is no
\* fetch of the output, no delete and no report. Conversely, as the storage tier
\* does answer "completed" in the end, a drain whose calls all return ends with
\* its report: every drain under way leads to its report or to the exception of
\* a call.
C16_NoDeadlineAndCompletion ==
    /\ [][ (dpc \in PollPcs /\ dpc' \notin PollPcs)
             => /\ dpc' = "fetch"
                /\ IsPoll(calls'[Len(calls')], "completed") ]_vars
    /\ [][ (dpc = "poll" /\ calls' # calls /\ IsPoll(calls'[Len(calls')], "pending"))
             => /\ dpc' = "poll_sleep"
                /\ mpc' = "loop" ]_vars
    /\ [](dpc = "poll_sleep" => ENABLED PollSleep)
    /\ []((dpc = "poll" /\ mpc = "loop") => ENABLED DescribeJob)
    /\ [](CompletedPolls = 0
            => /\ CallsOf("get_job_output") = 0
               /\ Len(DeleteCalls) = 0
               /\ ~HasLine("Elapsed time")
               /\ ~HasLine("Total Archives"))
    /\ (InDrain /\ mpc = "loop") ~> (Reported \/ mpc = "crashed")

C16_Witness ==
    Reported /\ polls = 2 /\ Len(archive_list) = 2 /\ CompletedPolls = 1

C16_WitnessWaiting ==
    dpc = "poll_sleep" /\ polls = 2 /\ CompletedPolls = 0

(* -------------------------------- C17 --------------------------------- *)
\* C17: the vaults are drained one after another in the order of the list, the
\* k-th drain for the k-th non-blank line: a drain starts only when the one
\* before has returned, every call is made for the vault of the drain under
\* way, so every call for a vault comes before any call for the next; a program
\* that reaches its end has run one drain per non-blank line; and a delete is
\* issued only when the one before has returned and been counted.
C17_OneVaultAtATime ==
    /\ [][ vidx' # vidx
             => /\ vidx' = vidx + 1
                /\ dpc = "idle"
                /\ dpc' = "check_exists"
                /\ calls' = << >>
                /\ vault_name' = vault_names[vidx'] ]_vars
    /\ [][ (calls' # calls /\ calls' # << >>)
             => /\ vidx' = vidx
                /\ dpc # "idle"
                /\ Len(calls') = Len(calls) + 1
                /\ calls'[Len(calls')].vault = vault_names[vidx] ]_vars
    /\ [](\A i \in DOMAIN calls : calls[i].vault = vault_names[vidx])
    /\ [](mpc = "done" /\ file.exists
            => /\ vidx = NonBlankCount
               /\ main_log = IF NonBlankCount = 0
                             THEN << Line("ERROR", "No vaults to process", 0) >>
                             ELSE [i \in 1..NonBlankCount |->
                                     Line("INFO", "Processing vault", i)])
    /\ [](Len(DeleteCalls) - archive_idx \in {0, 1})
    /\ [][ (Len(DeleteCalls)' > Len(DeleteCalls) /\ calls' # << >>)
             => /\ Len(DeleteCalls) = archive_idx
                /\ Len(DeleteCalls)' = Len(DeleteCalls) + 1 ]_vars

C17_Witness ==
    /\ vault_names = << <<"a">>, <<"b">> >>
    /\ vidx = 2
    /\ vault_name = <<"b">>
    /\ Len(DeleteCalls) = 2
    /\ \A i \in DOMAIN calls : calls[i].vault = <<"b">>

(* -------------------------------- C18 --------------------------------- *)
InventoryIdSet == { archive_list[i].ArchiveId : i \in DOMAIN archive_list }

\* C18: every archive delete of a drain is addressed to the vault being drained
\* and to an archive id of the inventory this drain fetched: the archive list
\* is set only by the get_job_output of the drain under way and is not changed
\* afterwards, and each delete issued names the drain's vault and the entry the
\* loop is at.
C18_DeletesScopedToVault ==
    /\ [](\A i \in DOMAIN calls :
            IsDelete(calls[i])
              => /\ calls[i].vault = vault_name
                 /\ calls[i].vault = vault_names[vidx]
                 /\ calls[i].archive \in InventoryIdSet
                 /\ \E j \in 1..(i - 1) :
                      /\ calls[j].op = "get_job_output"
                      /\ calls[j].result = "ok"
                      /\ calls[j].vault = calls[i].vault)
    /\ [][ (archive_list' # archive_list /\ dpc # "idle")
             => /\ dpc = "fetch"
                /\ calls'[Len(calls')].op = "get_job_output"
                /\ calls'[Len(calls')].vault = vault_name ]_vars
    /\ [][ (Len(DeleteCalls)' > Len(DeleteCalls) /\ calls' # << >>)
             => /\ calls'[Len(calls')].archive = archive_list[it].ArchiveId
                /\ calls'[Len(calls')].vault = vault_name
                /\ archive_list' = archive_list
                /\ vault_name' = vault_name ]_vars

C18_Witness ==
    /\ vidx = 2
    /\ vault_name = <<"b">>
    /\ InventoryIdSet = {"a2", "a3"}
    /\ Len(DeleteCalls) = 2
    /\ DeleteCalls[2].vault = <<"b">>

(* -------------------------------- C19 --------------------------------- *)
\* C19: a drain of an existing vault submits one inventory-retrieval job: there
\* is one initiate_job call, right after the existence check, none while
\* polling; and every describe_job and get_job_output call of the drain names
\* the job id that submission returned and the vault of the drain.
C19_OneJobPerDrain ==
    /\ CallsOf("initiate_job") <= 1
    /\ (PassedCheck /\ dpc # "initiate")
         => /\ CallsOf("initiate_job") = 1
            /\ calls[2].op = "initiate_job"
            /\ calls[2].vault = vault_name
    /\ \A i \in DOMAIN calls :
         calls[i].op \in {"describe_job", "get_job_output"}
           => /\ i > 2
              /\ calls[2].op = "initiate_job"
              /\ calls[2].result = "ok"
              /\ calls[i].job = calls[2].job
              /\ calls[i].job \in JobIds
              /\ calls[i].vault = calls[2].vault
              /\ calls[i].vault = vault_name

C19_Witness ==
    /\ Reported
    /\ polls = 2
    /\ CallsOf("initiate_job") = 1
    /\ CallsOf("describe_job") = 3
    /\ \A i \in DOMAIN calls : calls[i].op = "get_job_output" => calls[i].job = "j2"

====
